---- MODULE Spec2Model ----
(***************************************************************************)
(* Model of the BPOD engine of modred (src/bpod.py): the decomposition     *)
(* state each worker of an SPMD run holds (hankelMat, LSingVecs, singVals, *)
(* RSingVecs, the snapshot path lists, the matrix I/O callables), the      *)
(* public operations load_decomp, save_decomp, compute_decomp,             *)
(* compute_direct_modes and compute_adjoint_modes, the matrix files they   *)
(* read and write, and the collective broadcasts between the workers.      *)
(*                                                                         *)
(* Every worker runs the same script: a call is issued to all workers with *)
(* the same arguments, and each worker then runs it at its own pace.  The  *)
(* code a worker runs between two collectives is one action.               *)
(***************************************************************************)
EXTENDS Integers, Sequences, FiniteSets, TLC

\* Number of worker processes of a distributed run.
NumWorkers == 2
\* Number of public operations the script calls in one run.
MaxCalls == 2

Workers == 0 .. (NumWorkers - 1)

\* Python's None, for strings (paths, callables, exception names) ...
None == "None"
\* ... and for structured values (path lists, matrices).
NoneVal == [k |-> "None"]
\* An argument the caller left out of the call.
Absent == "Absent"

Min(a, b) == IF a < b THEN a ELSE b

----------------------------------------------------------------------------
\* Snapshots, inner product, matrices

\* A snapshot path list.
List(s) == [k |-> "list", v |-> s]

DirectList == List(<<"d1", "d2">>)
AdjointList == List(<<"a1", "a2", "a3">>)
EmptyList == List(<< >>)

\* load_field: the field stored under a snapshot path (1-D vectors).
load_field(p) ==
    CASE p = "d1" -> <<1, 0>>
      [] p = "d2" -> <<0, 1>>
      [] p = "a1" -> <<1, 0>>
      [] p = "a2" -> <<0, 1>>
      [] p = "a3" -> <<1, 1>>

\* inner_product: dot product of two fields.
inner_product(x, y) == x[1] * y[1] + x[2] * y[2]

\* A matrix value: kind says which artifact it is, shape is its numpy shape,
\* h holds the entries of the Hankel matrix it is (kind "H") or was factored
\* from (kinds "L", "S", "R").
Mat(kind, shape, h) == [k |-> "mat", kind |-> kind, shape |-> shape, h |-> h]

\* ModalDecomp.compute_inner_product_matrix(rowPaths, colPaths).
compute_inner_product_matrix(rowPaths, colPaths) ==
    Mat("H", <<Len(rowPaths.v), Len(colPaths.v)>>,
        [i \in 1 .. Len(rowPaths.v) |->
            [j \in 1 .. Len(colPaths.v) |->
                inner_product(load_field(rowPaths.v[i]),
                              load_field(colPaths.v[j]))]])

\* util.svd(A) when it converges: left vectors, flat singular values, right
\* vectors of A.
svd(A) ==
    LET r == Min(A.shape[1], A.shape[2])
    IN  [L |-> Mat("L", <<A.shape[1], r>>, A.h),
         S |-> Mat("S", <<r>>, A.h),
         R |-> Mat("R", <<A.shape[2], r>>, A.h)]

\* N.squeeze(N.array(A)): drops the axes of length one.
Squeeze(A) ==
    IF A = NoneVal THEN A
    ELSE [A EXCEPT !.shape = SelectSeq(A.shape, LAMBDA d : d # 1)]

\* What a matrix file holds for A: matrix files are two-dimensional, a flat
\* sequence is stored as a single column.
AsStored(A) ==
    IF A # NoneVal /\ Len(A.shape) = 1
    THEN [A EXCEPT !.shape = <<A.shape[1], 1>>]
    ELSE A

----------------------------------------------------------------------------
\* Artifacts and their files

Artifacts == {"hankelMat", "LSingVecs", "singVals", "RSingVecs"}

\* Default output paths of compute_decomp.
DefaultPath(a) ==
    CASE a = "hankelMat" -> "hankelMat.txt"
      [] a = "LSingVecs" -> "LSingVecs.txt"
      [] a = "singVals"  -> "singVals.txt"
      [] a = "RSingVecs" -> "RSingVecs.txt"

Paths == {DefaultPath(a) : a \in Artifacts}

NoFile == [k |-> "NoFile"]

\* The Hankel matrix of an earlier run, whose files may be on disk at start.
OldH == Mat("H", <<2, 2>>, <<<<2, 0>>, <<0, 2>>>>)

OldFiles ==
    [p \in Paths |->
        CASE p = "hankelMat.txt" -> OldH
          [] p = "LSingVecs.txt" -> svd(OldH).L
          [] p = "singVals.txt"  -> AsStored(svd(OldH).S)
          [] p = "RSingVecs.txt" -> svd(OldH).R]

----------------------------------------------------------------------------
VARIABLES
    parallel,          \* mpi.parallel: TRUE in a distributed run
    scriptPaths,       \* the artifact paths the script passes to its calls
    disk,              \* matrix files: path -> matrix or NoFile
    saved,             \* per artifact, the engine value save_decomp last wrote
    call,              \* the public operation in progress and its arguments
    ncalls,            \* operations called so far
    clean,             \* no call on the engine has raised so far
    pc,                \* per worker: where it is in the operation
    exc,               \* per worker: the exception the operation raised
    log,               \* per worker: collaborator calls made by the operation
    pre,               \* per worker: engine fields when the operation began
    directSnapPaths, adjointSnapPaths,
    LSingVecs, singVals, RSingVecs, hankelMat,
    load_mat, save_mat

engine == <<directSnapPaths, adjointSnapPaths, LSingVecs, singVals, RSingVecs,
            hankelMat, load_mat, save_mat>>
env == <<parallel, scriptPaths>>
vars == <<parallel, scriptPaths, disk, saved, call, ncalls, clean, pc, exc, log, pre,
          directSnapPaths, adjointSnapPaths, LSingVecs, singVals, RSingVecs,
          hankelMat, load_mat, save_mat>>

\* The workers of the run: a serial run has the single rank 0.
Procs == IF parallel THEN Workers ELSE {0}

\* mpi.isRankZero()
isRankZero(w) == w = 0

\* mpi.comm.bcast(value, root=0) on every worker: each gets the root's value.
bcast(values) == [w \in Workers |-> IF w \in Procs THEN values[0] ELSE values[w]]

\* The engine fields of worker w.
Fields(w) ==
    [directSnapPaths |-> directSnapPaths[w],
     adjointSnapPaths |-> adjointSnapPaths[w],
     LSingVecs |-> LSingVecs[w], singVals |-> singVals[w],
     RSingVecs |-> RSingVecs[w], hankelMat |-> hankelMat[w]]

\* The engine field that holds artifact a.
Field(a, w) ==
    CASE a = "hankelMat" -> hankelMat[w]
      [] a = "LSingVecs" -> LSingVecs[w]
      [] a = "singVals"  -> singVals[w]
      [] a = "RSingVecs" -> RSingVecs[w]

NoCall ==
    [op |-> "none", paths |-> [a \in Artifacts |-> None],
     directSnapPaths |-> NoneVal, adjointSnapPaths |-> NoneVal,
     load_mat |-> None, modeNumList |-> << >>, indexFrom |-> 1]

\* BPOD.__init__: the engine after construction, with no snapshot lists and
\* no decomposition supplied.  The files of an earlier run are on disk, or
\* no file is and the script names all four.
Init ==
    /\ parallel \in BOOLEAN
    /\ scriptPaths \in {[a \in Artifacts |-> IF a \in s THEN DefaultPath(a) ELSE None] :
                            s \in SUBSET Artifacts}
    /\ disk \in {[p \in Paths |-> NoFile], OldFiles}
    /\ disk = OldFiles \/ \A a \in Artifacts : scriptPaths[a] # None
    /\ saved = [a \in Artifacts |-> NoneVal]
    /\ call = NoCall
    /\ ncalls = 0
    /\ clean = TRUE
    /\ pc = [w \in Workers |-> "idle"]
    /\ exc = [w \in Workers |-> None]
    /\ log = [w \in Workers |-> << >>]
    /\ directSnapPaths = [w \in Workers |-> NoneVal]
    /\ adjointSnapPaths = [w \in Workers |-> NoneVal]
    /\ LSingVecs = [w \in Workers |-> NoneVal]
    /\ singVals = [w \in Workers |-> NoneVal]
    /\ RSingVecs = [w \in Workers |-> NoneVal]
    /\ hankelMat = [w \in Workers |-> NoneVal]
    /\ \E sm \in {None, "save_mat_text"}, lm \in {None, "load_mat_text"} :
          /\ sm = None => lm # None
          /\ save_mat = [w \in Workers |-> sm]
          /\ load_mat = [w \in Workers |-> lm]
    /\ pre = [w \in Workers |-> Fields(w)]

----------------------------------------------------------------------------
\* The script: it issues the next public operation to every worker

Finished == \A w \in Procs : pc[w] \in {"idle", "done", "raised"}

Begin(c) ==
    /\ Finished
    /\ ncalls < MaxCalls
    /\ call' = c
    /\ ncalls' = ncalls + 1
    /\ clean' = (clean /\ \A w \in Procs : pc[w] # "raised")
    /\ pc' = [w \in Workers |-> IF w \in Procs THEN "called" ELSE pc[w]]
    /\ exc' = [w \in Workers |-> None]
    /\ log' = [w \in Workers |-> << >>]
    /\ pre' = [w \in Workers |-> Fields(w)]
    /\ UNCHANGED <<engine, env, disk, saved>>

\* compute_decomp(...): the artifact paths are passed or all left out, the
\* snapshot lists are passed or left None, or one of them is passed empty.
CallComputeDecomp ==
    \E paths \in {scriptPaths, [a \in Artifacts |-> Absent]},
       d \in {NoneVal, EmptyList, DirectList},
       a \in {NoneVal, EmptyList, AdjointList} :
        /\ d = DirectList \/ a = AdjointList \/ (d = NoneVal /\ a = NoneVal)
        /\ Begin([NoCall EXCEPT !.op = "compute_decomp", !.paths = paths,
                             !.directSnapPaths = d, !.adjointSnapPaths = a])

\* load_decomp(hankelMatPath, LSingVecsPath, singValsPath, RSingVecsPath,
\* load_mat) with the script's paths or with the four file names.
CallLoadDecomp ==
    \E lm \in {None, "load_mat_text"},
       paths \in {scriptPaths, [a \in Artifacts |-> DefaultPath(a)]} :
        Begin([NoCall EXCEPT !.op = "load_decomp", !.paths = paths,
                             !.load_mat = lm])

\* save_decomp(hankelMatPath, LSingVecsPath, singValsPath, RSingVecsPath);
\* the script saves artifacts its engine holds.
CallSaveDecomp ==
    /\ \A a \in Artifacts : scriptPaths[a] # None => Field(a, 0) # NoneVal
    /\ Begin([NoCall EXCEPT !.op = "save_decomp", !.paths = scriptPaths])

\* Mode numbers a call asks for.
ModeLists == {<<1>>, <<2, 1>>}

\* The index origins the script numbers its modes from.
IndexOrigins == {0, 1}

\* The modes of list ml, numbered from `from` instead of 1.
ModeNumbers(ml, from) == [i \in 1 .. Len(ml) |-> ml[i] - 1 + from]

\* compute_direct_modes(modeNumList, modePath, indexFrom, directSnapPaths)
CallDirectModes ==
    \E ml \in ModeLists, from \in IndexOrigins, d \in {NoneVal, DirectList} :
        Begin([NoCall EXCEPT !.op = "compute_direct_modes",
                             !.modeNumList = ModeNumbers(ml, from),
                             !.indexFrom = from, !.directSnapPaths = d])

\* compute_adjoint_modes(modeNumList, modePath, indexFrom, adjointSnapPaths)
CallAdjointModes ==
    \E ml \in ModeLists, from \in IndexOrigins, a \in {NoneVal, AdjointList} :
        Begin([NoCall EXCEPT !.op = "compute_adjoint_modes",
                             !.modeNumList = ModeNumbers(ml, from),
                             !.indexFrom = from, !.adjointSnapPaths = a])

\* BPOD(...): the script replaces its engine by a newly constructed one with
\* the same matrix I/O callables.
Construct ==
    /\ Finished
    /\ \E w \in Procs : Fields(w) # [directSnapPaths |-> NoneVal,
            adjointSnapPaths |-> NoneVal, LSingVecs |-> NoneVal,
            singVals |-> NoneVal, RSingVecs |-> NoneVal, hankelMat |-> NoneVal]
    /\ directSnapPaths' = [w \in Workers |-> NoneVal]
    /\ adjointSnapPaths' = [w \in Workers |-> NoneVal]
    /\ LSingVecs' = [w \in Workers |-> NoneVal]
    /\ singVals' = [w \in Workers |-> NoneVal]
    /\ RSingVecs' = [w \in Workers |-> NoneVal]
    /\ hankelMat' = [w \in Workers |-> NoneVal]
    /\ call' = NoCall
    /\ pc' = [w \in Workers |-> "idle"]
    /\ exc' = [w \in Workers |-> None]
    /\ log' = [w \in Workers |-> << >>]
    /\ pre' = [w \in Workers |-> Fields(w)']
    /\ clean' = TRUE
    /\ UNCHANGED <<load_mat, save_mat, env, disk, saved, ncalls>>

Return(w) == pc' = [pc EXCEPT ![w] = "done"] /\ UNCHANGED exc
Raise(w, e) == pc' = [pc EXCEPT ![w] = "raised"] /\ exc' = [exc EXCEPT ![w] = e]
Logged(w, events) == log' = [log EXCEPT ![w] = @ \o events]

----------------------------------------------------------------------------
\* load_decomp

\* load_mat(path) fails when there is no such file.
LoadFails(p) == p = None \/ disk[p] = NoFile

\* load_decomp without its broadcasts.
LoadNeverBroadcasts == FALSE

\* `if self.mpi.parallel:` of load_decomp
LoadBroadcasts == parallel

\* load_decomp up to its first broadcast.
LoadDecomp(w) ==
    /\ pc[w] = "called"
    /\ call.op = "load_decomp"
    /\ LET lm  == IF call.load_mat # None THEN call.load_mat ELSE load_mat[w]
           pL  == call.paths["LSingVecs"]
           pS  == call.paths["singVals"]
           pR  == call.paths["RSingVecs"]
           okL == ~LoadFails(pL)
           okS == okL /\ ~LoadFails(pS)
           okR == okS /\ ~LoadFails(pR)
           after == IF LoadBroadcasts THEN "bcastL" ELSE "done"
       IN  /\ load_mat' = [load_mat EXCEPT ![w] = lm]
           /\ IF lm = None
              THEN /\ Raise(w, "NameError")
                   /\ UNCHANGED <<LSingVecs, singVals, RSingVecs, log>>
              ELSE IF isRankZero(w)
              THEN /\ LSingVecs' = IF okL THEN [LSingVecs EXCEPT ![w] = disk[pL]]
                                   ELSE LSingVecs
                   /\ singVals' = IF okS THEN [singVals EXCEPT ![w] = Squeeze(disk[pS])]
                                  ELSE singVals
                   /\ RSingVecs' = IF okR THEN [RSingVecs EXCEPT ![w] = disk[pR]]
                                   ELSE RSingVecs
                   /\ Logged(w, <<[ev |-> "load_mat", path |-> pL]>>
                          \o (IF okL THEN <<[ev |-> "load_mat", path |-> pS]>> ELSE << >>)
                          \o (IF okS THEN <<[ev |-> "load_mat", path |-> pR]>> ELSE << >>))
                   /\ IF okR
                      THEN pc' = [pc EXCEPT ![w] = after] /\ UNCHANGED exc
                      ELSE Raise(w, "IOError")
              ELSE /\ LSingVecs' = [LSingVecs EXCEPT ![w] = NoneVal]
                   /\ singVals' = [singVals EXCEPT ![w] = NoneVal]
                   /\ RSingVecs' = [RSingVecs EXCEPT ![w] = NoneVal]
                   /\ pc' = [pc EXCEPT ![w] = after]
                   /\ UNCHANGED <<exc, log>>
    /\ UNCHANGED <<directSnapPaths, adjointSnapPaths, hankelMat, save_mat,
                   env, disk, saved, call, ncalls, clean, pre>>

\* A collective: every worker of the run has reached it.
AllAt(op, at) == call.op = op /\ \A w \in Procs : pc[w] = at

Collective(to, art, into) ==
    /\ pc' = [w \in Workers |-> IF w \in Procs THEN to ELSE pc[w]]
    /\ log' = [w \in Workers |->
                 IF w \in Procs
                 THEN log[w] \o <<[ev |-> "bcast", art |-> art, into |-> into]>>
                 ELSE log[w]]
    /\ UNCHANGED <<directSnapPaths, adjointSnapPaths, hankelMat, load_mat,
                   save_mat, env, disk, saved, call, ncalls, clean, pre, exc>>

\* self.LSingVecs = self.mpi.comm.bcast(self.LSingVecs, root=0)
LoadBcastL ==
    /\ AllAt("load_decomp", "bcastL")
    /\ LSingVecs' = bcast(LSingVecs)
    /\ Collective("bcastS", "LSingVecs", "LSingVecs")
    /\ UNCHANGED <<singVals, RSingVecs>>

\* self.singVals = self.mpi.comm.bcast(self.singVals, root=0)
LoadBcastS ==
    /\ AllAt("load_decomp", "bcastS")
    /\ singVals' = bcast(singVals)
    /\ Collective("bcastR", "singVals", "singVals")
    /\ UNCHANGED <<LSingVecs, RSingVecs>>

\* self.RSingVecs = self.mpi.comm.bcast(self.LSingVecs, root=0)
LoadBcastR ==
    /\ AllAt("load_decomp", "bcastR")
    /\ RSingVecs' = bcast(LSingVecs)
    /\ Collective("done", "LSingVecs", "RSingVecs")
    /\ UNCHANGED <<LSingVecs, singVals>>

----------------------------------------------------------------------------
\* save_decomp

\* save_decomp writing on every worker instead of the coordinating one.
SavesEverywhere(w) == TRUE

\* `if self.mpi.isRankZero():` of save_decomp
SavesHere(w) == isRankZero(w)

\* The order in which save_decomp writes the artifacts.
SaveOrder == <<"hankelMat", "LSingVecs", "RSingVecs", "singVals">>

\* save_decomp missing its save_mat on whichever worker runs it.
MissingSaveMatAnywhere(w) == save_mat[w] = None

\* `if self.save_mat is None and self.mpi.isRankZero():`
MissingSaveMat(w) == save_mat[w] = None /\ isRankZero(w)

\* save_decomp(hankelMatPath, LSingVecsPath, singValsPath, RSingVecsPath) on
\* worker w (the script's paths are distinct, so is the file of each artifact);
\* on return the worker goes on at `to`.
SaveDecomp(w, paths, to) ==
    IF MissingSaveMat(w)
    THEN /\ Raise(w, "util.UndefinedError")
         /\ UNCHANGED <<disk, saved, log>>
    ELSE /\ pc' = [pc EXCEPT ![w] = to]
         /\ UNCHANGED exc
         /\ IF SavesHere(w)
            THEN LET written == SelectSeq(SaveOrder, LAMBDA a : paths[a] # None)
                 IN  /\ disk' = [p \in Paths |->
                                   IF \E a \in Artifacts : paths[a] = p
                                   THEN AsStored(Field(CHOOSE a \in Artifacts : paths[a] = p, w))
                                   ELSE disk[p]]
                     /\ saved' = [a \in Artifacts |->
                                    IF paths[a] # None THEN Field(a, w) ELSE saved[a]]
                     /\ Logged(w, [i \in 1 .. Len(written) |->
                                     [ev |-> "save_mat", art |-> written[i],
                                      path |-> paths[written[i]]]])
            ELSE UNCHANGED <<disk, saved, log>>

\* save_decomp called by the script.
SaveDecompCall(w) ==
    /\ pc[w] = "called"
    /\ call.op = "save_decomp"
    /\ SaveDecomp(w, call.paths, "done")
    /\ UNCHANGED <<engine, env, call, ncalls, clean, pre>>

----------------------------------------------------------------------------
\* compute_decomp

\* compute_decomp taking a None path for a missing one, too.
PathArgumentNoNone(a, arg) == IF arg \in {Absent, None} THEN DefaultPath(a) ELSE arg

\* A path argument of compute_decomp: its default when the caller leaves it out.
PathArgument(a, arg) == IF arg = Absent THEN DefaultPath(a) ELSE arg

\* compute_decomp without its check of directSnapPaths.
DirectNeverMissing(d) == FALSE

\* `if self.directSnapPaths is None:`
DirectMissing(d) == d = NoneVal

\* `if self.adjointSnapPaths is None:`
AdjointMissing(a) == a = NoneVal

\* compute_decomp passing the direct list as rows and the adjoint as columns.
HankelArgsSwapped(a, d) == [rows |-> d, cols |-> a]

\* The arguments compute_decomp gives the inner-product matrix builder.
HankelArgs(a, d) == [rows |-> a, cols |-> d]

\* compute_decomp factorizing on every worker.
FactorizesEverywhere(w) == TRUE

\* `if self.mpi.isRankZero():` of compute_decomp
FactorizesHere(w) == isRankZero(w)

\* compute_decomp without its broadcasts.
ComputeNeverBroadcasts == FALSE

\* `if self.mpi.isParallel():` of compute_decomp
ComputeBroadcasts == parallel

\* compute_decomp saving before it broadcasts.
ComputeStagesSaveFirst == <<"save", "bcastL", "bcastS", "bcastR">>

\* What compute_decomp does after the factorization, in order: the three
\* broadcasts, then save_decomp.
ComputeStages == <<"bcastL", "bcastS", "bcastR", "save">>

\* The stages a run goes through: a serial run does not broadcast.
StagesRun == SelectSeq(ComputeStages, LAMBDA s : ComputeBroadcasts \/ s = "save")

\* The stage after stage s ("called": the first one), "done" after the last.
StageAfter(s) ==
    LET i == IF s = "called" THEN 0
             ELSE CHOOSE j \in 1 .. Len(StagesRun) : StagesRun[j] = s
    IN  IF i < Len(StagesRun) THEN StagesRun[i + 1] ELSE "done"

\* compute_decomp up to its first broadcast.
ComputeDecomp(w) ==
    /\ pc[w] = "called"
    /\ call.op = "compute_decomp"
    /\ LET d == IF call.directSnapPaths # NoneVal THEN call.directSnapPaths
                ELSE directSnapPaths[w]
           a == IF call.adjointSnapPaths # NoneVal THEN call.adjointSnapPaths
                ELSE adjointSnapPaths[w]
           args == HankelArgs(a, d)
           built == [ev |-> "compute_inner_product_matrix",
                     rows |-> args.rows, cols |-> args.cols]
           after == StageAfter("called")
       IN  /\ directSnapPaths' = [directSnapPaths EXCEPT ![w] = d]
           /\ adjointSnapPaths' = [adjointSnapPaths EXCEPT ![w] = a]
           /\ IF DirectMissing(d) \/ AdjointMissing(a)
              THEN /\ Raise(w, "util.UndefinedError")
                   /\ UNCHANGED <<hankelMat, LSingVecs, singVals, RSingVecs, log>>
              ELSE IF args.rows = NoneVal \/ args.cols = NoneVal
              THEN \* the builder cannot take the length of None
                   /\ Raise(w, "TypeError")
                   /\ Logged(w, <<built>>)
                   /\ UNCHANGED <<hankelMat, LSingVecs, singVals, RSingVecs>>
              ELSE LET H == compute_inner_product_matrix(args.rows, args.cols)
                   IN  /\ hankelMat' = [hankelMat EXCEPT ![w] = H]
                       /\ IF FactorizesHere(w)
                          THEN /\ Logged(w, <<built, [ev |-> "svd"]>>)
                               /\ \E converges \in BOOLEAN :
                                    IF converges
                                    THEN /\ LSingVecs' = [LSingVecs EXCEPT ![w] = svd(H).L]
                                         /\ singVals' = [singVals EXCEPT ![w] = svd(H).S]
                                         /\ RSingVecs' = [RSingVecs EXCEPT ![w] = svd(H).R]
                                         /\ pc' = [pc EXCEPT ![w] = after]
                                         /\ UNCHANGED exc
                                    ELSE /\ Raise(w, "LinAlgError")
                                         /\ UNCHANGED <<LSingVecs, singVals, RSingVecs>>
                          ELSE /\ Logged(w, <<built>>)
                               /\ LSingVecs' = [LSingVecs EXCEPT ![w] = NoneVal]
                               /\ RSingVecs' = [RSingVecs EXCEPT ![w] = NoneVal]
                               /\ singVals' = [singVals EXCEPT ![w] = NoneVal]
                               /\ pc' = [pc EXCEPT ![w] = after]
                               /\ UNCHANGED exc
    /\ UNCHANGED <<load_mat, save_mat, env, disk, saved, call, ncalls, clean, pre>>

\* self.LSingVecs = self.mpi.comm.bcast(self.LSingVecs, root=0)
ComputeBcastL ==
    /\ AllAt("compute_decomp", "bcastL")
    /\ LSingVecs' = bcast(LSingVecs)
    /\ Collective(StageAfter("bcastL"), "LSingVecs", "LSingVecs")
    /\ UNCHANGED <<singVals, RSingVecs>>

\* self.singVals = self.mpi.comm.bcast(self.singVals, root=0)
ComputeBcastS ==
    /\ AllAt("compute_decomp", "bcastS")
    /\ singVals' = bcast(singVals)
    /\ Collective(StageAfter("bcastS"), "singVals", "singVals")
    /\ UNCHANGED <<LSingVecs, RSingVecs>>

\* self.RSingVecs = self.mpi.comm.bcast(self.RSingVecs, root=0)
ComputeBcastR ==
    /\ AllAt("compute_decomp", "bcastR")
    /\ RSingVecs' = bcast(RSingVecs)
    /\ Collective(StageAfter("bcastR"), "RSingVecs", "RSingVecs")
    /\ UNCHANGED <<LSingVecs, singVals>>

\* The paths compute_decomp passes on to save_decomp.
ComputePaths == [a \in Artifacts |-> PathArgument(a, call.paths[a])]

\* self.save_decomp(hankelMatPath, LSingVecsPath, singValsPath, RSingVecsPath)
ComputeDecompSave(w) ==
    /\ pc[w] = "save"
    /\ call.op = "compute_decomp"
    /\ SaveDecomp(w, ComputePaths, StageAfter("save"))
    /\ UNCHANGED <<engine, env, call, ncalls, clean, pre>>

----------------------------------------------------------------------------
\* compute_direct_modes, compute_adjoint_modes

\* N.mat(V) * N.mat(N.diag(singVals ** -0.5))
buildCoeffMat(V, S) == [k |-> "coeff", V |-> V, S |-> S]

\* The factor a modes call would take from what save_decomp last wrote.
LastSavedFactor(a, w) == saved[a]

\* self.RSingVecs, self.LSingVecs, self.singVals as the modes call reads them
CurrentFactor(a, w) == Field(a, w)

\* The modes call leaving the index origin to the builder's default.
DefaultIndexFrom == 1

\* `indexFrom=indexFrom` in the call of _compute_modes
ForwardedIndexFrom == call.indexFrom

\* The fields ModalDecomp._compute_modes writes: one per requested mode
\* number m, the snapshots combined with column m - indexFrom of the
\* coefficient matrix.
compute_modes(modeNumList, snapPaths, coeff, indexFrom) ==
    {[mode |-> modeNumList[i], column |-> modeNumList[i] - indexFrom,
      snapPaths |-> snapPaths, coeff |-> coeff] : i \in DOMAIN modeNumList}

\* The call of ModalDecomp._compute_modes.
ModesEvent(snapPaths, coeff) ==
    [ev |-> "_compute_modes", modeNumList |-> call.modeNumList,
     snapPaths |-> snapPaths, coeff |-> coeff, indexFrom |-> ForwardedIndexFrom,
     modes |-> compute_modes(call.modeNumList, snapPaths, coeff,
                             ForwardedIndexFrom)]

ComputeDirectModes(w) ==
    /\ pc[w] = "called"
    /\ call.op = "compute_direct_modes"
    /\ IF RSingVecs[w] = NoneVal \/ singVals[w] = NoneVal
       THEN /\ Raise(w, "util.UndefinedError")
            /\ UNCHANGED <<directSnapPaths, log>>
       ELSE LET d == IF call.directSnapPaths # NoneVal THEN call.directSnapPaths
                     ELSE directSnapPaths[w]
            IN  /\ directSnapPaths' = [directSnapPaths EXCEPT ![w] = d]
                /\ Logged(w, <<ModesEvent(d,
                                buildCoeffMat(CurrentFactor("RSingVecs", w),
                                              CurrentFactor("singVals", w)))>>)
                /\ Return(w)
    /\ UNCHANGED <<adjointSnapPaths, LSingVecs, singVals, RSingVecs, hankelMat,
                   load_mat, save_mat, env, disk, saved, call, ncalls, clean, pre>>

ComputeAdjointModes(w) ==
    /\ pc[w] = "called"
    /\ call.op = "compute_adjoint_modes"
    /\ IF LSingVecs[w] = NoneVal \/ singVals[w] = NoneVal
       THEN \* `raise UndefinedError(...)`: the name is not defined in bpod.py
            /\ Raise(w, "NameError")
            /\ UNCHANGED <<adjointSnapPaths, singVals, log>>
       ELSE LET a == IF call.adjointSnapPaths # NoneVal THEN call.adjointSnapPaths
                     ELSE adjointSnapPaths[w]
                S == Squeeze(singVals[w])
            IN  /\ adjointSnapPaths' = [adjointSnapPaths EXCEPT ![w] = a]
                /\ singVals' = [singVals EXCEPT ![w] = S]
                /\ Logged(w, <<ModesEvent(a,
                                buildCoeffMat(CurrentFactor("LSingVecs", w),
                                     Squeeze(CurrentFactor("singVals", w))))>>)
                /\ Return(w)
    /\ UNCHANGED <<directSnapPaths, LSingVecs, RSingVecs, hankelMat,
                   load_mat, save_mat, env, disk, saved, call, ncalls, clean, pre>>

----------------------------------------------------------------------------
Next ==
    \/ CallComputeDecomp
    \/ CallLoadDecomp
    \/ CallSaveDecomp
    \/ CallDirectModes
    \/ CallAdjointModes
    \/ Construct
    \/ \E w \in Procs : LoadDecomp(w)
    \/ LoadBcastL
    \/ LoadBcastS
    \/ LoadBcastR
    \/ \E w \in Procs : SaveDecompCall(w)
    \/ \E w \in Procs : ComputeDecomp(w)
    \/ ComputeBcastL
    \/ ComputeBcastS
    \/ ComputeBcastR
    \/ \E w \in Procs : ComputeDecompSave(w)
    \/ \E w \in Procs : ComputeDirectModes(w)
    \/ \E w \in Procs : ComputeAdjointModes(w)

Spec == Init /\ [][Next]_vars

\* The steps worker w takes on its own, and the collectives.
WorkerStep(w) ==
    \/ LoadDecomp(w)
    \/ SaveDecompCall(w)
    \/ ComputeDecomp(w)
    \/ ComputeDecompSave(w)
    \/ ComputeDirectModes(w)
    \/ ComputeAdjointModes(w)

Collectives ==
    \/ LoadBcastL
    \/ LoadBcastS
    \/ LoadBcastR
    \/ ComputeBcastL
    \/ ComputeBcastS
    \/ ComputeBcastR

\* Every worker process keeps running the operation it was called with, and
\* a broadcast every worker has entered completes.  The script is under no
\* obligation to call anything.
Fairness ==
    /\ \A w \in Workers : WF_vars(w \in Procs /\ WorkerStep(w))
    /\ WF_vars(Collectives)

\* Distributed runs of a script that names all four files.
LiveInit ==
    /\ Init
    /\ parallel
    /\ \A a \in Artifacts : scriptPaths[a] # None

LiveSpec == LiveInit /\ [][Next]_vars /\ Fairness

TypeOK ==
    /\ pc \in [Workers -> {"idle", "called", "bcastL", "bcastS", "bcastR",
                           "save", "done", "raised"}]
    /\ ncalls \in 0 .. MaxCalls

----------------------------------------------------------------------------
\* What an operation did, read off the log of worker w

Did(w, ev) == \E i \in DOMAIN log[w] : log[w][i].ev = ev

WroteArtifact(w, a) ==
    \E i \in DOMAIN log[w] : log[w][i].ev = "save_mat" /\ log[w][i].art = a

WroteTo(w, a, p) ==
    \E i \in DOMAIN log[w] :
        log[w][i].ev = "save_mat" /\ log[w][i].art = a /\ log[w][i].path = p

LoadedFrom(w, p) ==
    \E i \in DOMAIN log[w] : log[w][i].ev = "load_mat" /\ log[w][i].path = p

AllReturned == \A w \in Procs : pc[w] = "done"
Ended(w) == pc[w] \in {"done", "raised"}

\* The snapshot lists in force when compute_decomp was called: the argument
\* if given, else the list the engine held.
DirectAtCall(w) ==
    IF call.directSnapPaths # NoneVal THEN call.directSnapPaths
    ELSE pre[w].directSnapPaths
AdjointAtCall(w) ==
    IF call.adjointSnapPaths # NoneVal THEN call.adjointSnapPaths
    ELSE pre[w].adjointSnapPaths

Unset(l) == l = NoneVal
UnsetOrEmpty(l) == l = NoneVal \/ l = EmptyList

\* The engine as constructed, before any decomposition.
FreshFields ==
    [directSnapPaths |-> NoneVal, adjointSnapPaths |-> NoneVal,
     LSingVecs |-> NoneVal, singVals |-> NoneVal, RSingVecs |-> NoneVal,
     hankelMat |-> NoneVal]

----------------------------------------------------------------------------
\* C1: once compute_decomp or load_decomp has returned on every worker of a
\* distributed run, all workers hold the same hankelMat, LSingVecs, singVals
\* and RSingVecs.
C1_WorkersAgree ==
    (parallel /\ call.op \in {"compute_decomp", "load_decomp"} /\ AllReturned)
    => \A v, w \in Procs :
          /\ hankelMat[v] = hankelMat[w]
          /\ LSingVecs[v] = LSingVecs[w]
          /\ singVals[v] = singVals[w]
          /\ RSingVecs[v] = RSingVecs[w]

C1_Witness ==
    /\ parallel
    /\ call.op = "compute_decomp"
    /\ AllReturned
    /\ \A w \in Procs : hankelMat[w] # NoneVal /\ LSingVecs[w] # NoneVal
                        /\ singVals[w] # NoneVal /\ RSingVecs[w] # NoneVal

\* C2: after load_decomp has returned in a distributed run, every worker's
\* LSingVecs, singVals and RSingVecs are the matrices of LSingVecsPath,
\* singValsPath (flattened) and RSingVecsPath.
C2_LoadedFromOwnPath ==
    (parallel /\ call.op = "load_decomp" /\ AllReturned
        /\ \A a \in {"LSingVecs", "singVals", "RSingVecs"} : call.paths[a] # None)
    => \A w \in Procs :
          /\ LSingVecs[w] = disk[call.paths["LSingVecs"]]
          /\ singVals[w] = Squeeze(disk[call.paths["singVals"]])
          /\ RSingVecs[w] = disk[call.paths["RSingVecs"]]

\* C3: load_decomp into a new engine that has a load_mat, with the paths a
\* save_decomp wrote, ends with every artifact whose path is given equal to
\* what was saved.
C3_RoundTrip ==
    (/\ call.op = "load_decomp"
     /\ \A w \in Procs : Ended(w) /\ pre[w] = FreshFields /\ load_mat[w] # None
     /\ \A a \in Artifacts : call.paths[a] # None => saved[a] # NoneVal)
    => \A w \in Procs : \A a \in Artifacts :
          call.paths[a] # None => Field(a, w) = saved[a]

\* C4: compute_direct_modes without RSingVecs or singVals, and
\* compute_adjoint_modes without LSingVecs or singVals, raise
\* util.UndefinedError and do not call _compute_modes.
C4_ModesNeedDecomp ==
    \A w \in Procs :
        (/\ Ended(w)
         /\ \/ /\ call.op = "compute_direct_modes"
               /\ (pre[w].RSingVecs = NoneVal \/ pre[w].singVals = NoneVal)
            \/ /\ call.op = "compute_adjoint_modes"
               /\ (pre[w].LSingVecs = NoneVal \/ pre[w].singVals = NoneVal))
        => /\ pc[w] = "raised"
           /\ exc[w] = "util.UndefinedError"
           /\ ~Did(w, "_compute_modes")

\* C5 as stated: compute_decomp raises util.UndefinedError, calling neither
\* the builder nor the SVD, whenever a snapshot list is unset or empty.
C5_UnsetOrEmptyRejected ==
    \A w \in Procs :
        (/\ call.op = "compute_decomp"
         /\ pc[w] # "called"
         /\ (UnsetOrEmpty(DirectAtCall(w)) \/ UnsetOrEmpty(AdjointAtCall(w))))
        => /\ pc[w] = "raised"
           /\ exc[w] = "util.UndefinedError"
           /\ ~Did(w, "compute_inner_product_matrix")
           /\ ~Did(w, "svd")

\* C5 amended: compute_decomp raises util.UndefinedError, calling neither the
\* builder nor the SVD, whenever a snapshot list is unset (None) in both the
\* call and the engine.
C5_UnsetRejected ==
    \A w \in Procs :
        (/\ call.op = "compute_decomp"
         /\ pc[w] # "called"
         /\ (Unset(DirectAtCall(w)) \/ Unset(AdjointAtCall(w))))
        => /\ pc[w] = "raised"
           /\ exc[w] = "util.UndefinedError"
           /\ ~Did(w, "compute_inner_product_matrix")
           /\ ~Did(w, "svd")

C5_Witness ==
    /\ call.op = "compute_decomp"
    /\ pc[0] = "raised"
    /\ Unset(DirectAtCall(0))
    /\ ~Unset(AdjointAtCall(0))
    /\ exc[0] = "util.UndefinedError"

\* C6: compute_decomp calls the builder with the adjoint list as rows and the
\* direct list as columns; hankelMat has one row per adjoint and one column
\* per direct snapshot, entry (i, j) the inner product of adjoint i and
\* direct j.
C6_HankelIsAdjointByDirect ==
    \A w \in Procs :
        (call.op = "compute_decomp" /\ Did(w, "compute_inner_product_matrix"))
        => LET adj == adjointSnapPaths[w].v
               dir == directSnapPaths[w].v
               H   == hankelMat[w]
           IN  /\ log[w][1].rows = adjointSnapPaths[w]
               /\ log[w][1].cols = directSnapPaths[w]
               /\ H.shape = <<Len(adj), Len(dir)>>
               /\ Len(H.h) = Len(adj)
               /\ \A i \in 1 .. Len(adj) :
                     /\ Len(H.h[i]) = Len(dir)
                     /\ \A j \in 1 .. Len(dir) :
                           H.h[i][j] = inner_product(load_field(adj[i]),
                                                     load_field(dir[j]))

C6_Witness ==
    /\ call.op = "compute_decomp"
    /\ pc[0] = "done"
    /\ directSnapPaths[0] = DirectList
    /\ adjointSnapPaths[0] = AdjointList
    /\ hankelMat[0].shape = <<3, 2>>
    /\ hankelMat[0].h = <<<<1, 0>>, <<0, 1>>, <<1, 1>>>>

\* The paths save_decomp was called with in the operation in progress.
SavePaths == IF call.op = "compute_decomp" THEN ComputePaths ELSE call.paths

\* C7: save_decomp calls save_mat on the coordinating worker only, and there
\* for exactly the artifacts whose path is not None, each to its own path.
C7_SaveOnlyGivenOnCoordinator ==
    \A w \in Procs :
        /\ ~isRankZero(w) => ~Did(w, "save_mat")
        /\ \A a \in Artifacts : WroteArtifact(w, a) => WroteTo(w, a, SavePaths[a])
        /\ \A a \in Artifacts : SavePaths[a] = None => ~WroteArtifact(w, a)
        /\ (/\ call.op \in {"save_decomp", "compute_decomp"}
            /\ isRankZero(w)
            /\ pc[w] = "done")
           => \A a \in Artifacts :
                 SavePaths[a] # None
                 => /\ WroteArtifact(w, a)
                    /\ disk[SavePaths[a]] = AsStored(Field(a, w))

C7_Witness ==
    /\ parallel
    /\ call.op = "save_decomp"
    /\ AllReturned
    /\ call.paths["singVals"] # None
    /\ call.paths["hankelMat"] = None
    /\ WroteArtifact(0, "singVals")
    /\ ~WroteArtifact(0, "hankelMat")

\* C8 as stated: compute_decomp writes no file for an artifact whose path
\* argument is not in the call.
C8_AbsentNotWritten ==
    \A w \in Procs : \A a \in Artifacts :
        (call.op = "compute_decomp" /\ call.paths[a] \in {Absent, None})
        => ~WroteArtifact(w, a)

\* C8 amended: compute_decomp writes no file for an artifact whose path
\* argument is None; an argument left out of the call takes its default file
\* name and the artifact is written there.
C8_NoneNotWritten ==
    \A w \in Procs : \A a \in Artifacts :
        call.op = "compute_decomp"
        => /\ call.paths[a] = None => ~WroteArtifact(w, a)
           /\ (call.paths[a] = Absent /\ isRankZero(w) /\ pc[w] = "done")
              => WroteTo(w, a, DefaultPath(a))

C8_Witness ==
    /\ call.op = "compute_decomp"
    /\ pc[0] = "done"
    /\ call.paths["LSingVecs"] = None
    /\ call.paths["RSingVecs"] = "RSingVecs.txt"
    /\ WroteArtifact(0, "RSingVecs")
    /\ ~WroteArtifact(0, "LSingVecs")

\* C9: load_decomp does not call load_mat for an artifact whose path is None
\* and leaves its field unset, and it loads every artifact whose path is
\* given, hankelMat included.
C9_LoadOnlyGiven ==
    \A w \in Procs :
        (call.op = "load_decomp" /\ isRankZero(w) /\ Ended(w)
            /\ exc[w] # "NameError")
        => /\ ~LoadedFrom(w, None)
           /\ \A a \in Artifacts :
                 /\ call.paths[a] = None => Field(a, w) = pre[w][a]
                 /\ (call.paths[a] # None /\ pc[w] = "done")
                    => LoadedFrom(w, call.paths[a])

\* C10: compute_decomp, load_decomp or save_decomp that raises leaves the
\* worker's hankelMat, LSingVecs, singVals, RSingVecs and snapshot lists as
\* they were before the call.
C10_RaiseLeavesState ==
    \A w \in Procs :
        (call.op \in {"compute_decomp", "load_decomp", "save_decomp"}
            /\ pc[w] = "raised")
        => Fields(w) = pre[w]

----------------------------------------------------------------------------
\* How often worker w did ev in the current call.
Times(w, ev) == Cardinality({i \in DOMAIN log[w] : log[w][i].ev = ev})

\* Worker w has entered a broadcast the others have not all entered yet.
Waiting(w) == pc[w] \in {"bcastL", "bcastS", "bcastR"}

\* C11: when the factorization of H fails in compute_decomp, the SVD routine
\* was invoked exactly once in that call, the failure surfaces on every
\* worker (a worker that has ended the call has raised it), and no worker
\* waits in a broadcast the failed coordinator will never enter.
C11_SvdFailureSurfaces ==
    (call.op = "compute_decomp" /\ exc[0] = "LinAlgError") =>
        /\ Times(0, "svd") = 1
        /\ \A w \in Procs :
               /\ ~Waiting(w)
               /\ Ended(w) => exc[w] = "LinAlgError"

----------------------------------------------------------------------------
\* What a modes call of worker w must hand to the linear-combination builder,
\* and what must come of it: the requested mode numbers and index origin, the
\* snapshot list, the coefficients of V and Sigma, and one field per requested
\* mode number m, made with column m - origin whatever the order of the
\* request.
ForwardsModes(w, snapPaths, V, S) ==
    LET C == buildCoeffMat(V, S)
    IN  /\ Len(log[w]) = 1
        /\ log[w][1].ev = "_compute_modes"
        /\ log[w][1].modeNumList = call.modeNumList
        /\ log[w][1].indexFrom = call.indexFrom
        /\ log[w][1].snapPaths = snapPaths
        /\ log[w][1].coeff = C
        /\ Cardinality(log[w][1].modes) = Len(call.modeNumList)
        /\ log[w][1].modes =
               {[mode |-> call.modeNumList[i],
                 column |-> call.modeNumList[i] - call.indexFrom,
                 snapPaths |-> snapPaths, coeff |-> C] :
                i \in DOMAIN call.modeNumList}

\* C12: a modes call that returns has forwarded exactly the requested mode
\* numbers and the index origin to the linear-combination builder, with the
\* direct list and R*diag(Sigma^-1/2) (compute_direct_modes) or the adjoint
\* list and L*diag(Sigma^-1/2) (compute_adjoint_modes); one field per
\* requested number results, that of number m from column m - origin.
C12_ModesForwarded ==
    \A w \in Procs :
        /\ (call.op = "compute_direct_modes" /\ pc[w] = "done") =>
               ForwardsModes(w, DirectAtCall(w), RSingVecs[w], singVals[w])
        /\ (call.op = "compute_adjoint_modes" /\ pc[w] = "done") =>
               ForwardsModes(w, AdjointAtCall(w), LSingVecs[w], singVals[w])

\* C12 witness: modes requested out of order and numbered from 0 were built.
C12_Witness ==
    /\ call.op = "compute_direct_modes"
    /\ call.modeNumList = <<1, 0>>
    /\ call.indexFrom = 0
    /\ AllReturned
    /\ Did(0, "_compute_modes")
    /\ DirectAtCall(0) = DirectList

----------------------------------------------------------------------------
\* In the current call of worker w every ev1 comes before every ev2.
AllBefore(w, ev1, ev2) ==
    \A i, j \in DOMAIN log[w] :
        (log[w][i].ev = ev1 /\ log[w][j].ev = ev2) => i < j

\* C13 as stated: within compute_decomp the SVD and every save_mat call come
\* before the broadcasts, no save_mat call follows a broadcast.
C13_SavesBeforeBroadcasts ==
    \A w \in Procs :
        call.op = "compute_decomp" =>
            /\ AllBefore(w, "svd", "bcast")
            /\ AllBefore(w, "save_mat", "bcast")

\* C13 amended: within compute_decomp the SVD comes before the broadcasts
\* and every save_mat call comes after them; in a distributed run a worker
\* that calls save_mat has been through all three broadcasts.
C13_SvdThenBroadcastsThenSaves ==
    \A w \in Procs :
        call.op = "compute_decomp" =>
            /\ AllBefore(w, "svd", "bcast")
            /\ AllBefore(w, "bcast", "save_mat")
            /\ (parallel /\ Did(w, "save_mat")) => Times(w, "bcast") = 3

\* C13 witness: a distributed compute_decomp factorized, broadcast and saved.
C13_Witness ==
    /\ parallel
    /\ call.op = "compute_decomp"
    /\ AllReturned
    /\ Did(0, "svd")
    /\ Times(0, "bcast") = 3
    /\ Did(0, "save_mat")

----------------------------------------------------------------------------
\* A broadcast of the current call has assigned artifact a on worker w.
Delivered(w, a) ==
    \E i \in DOMAIN log[w] : log[w][i].ev = "bcast" /\ log[w][i].into = a

\* C14: only the coordinating worker invokes the SVD; in compute_decomp every
\* other worker, once past the factorization step, holds None for each of L,
\* Sigma, R until the broadcast of that artifact has delivered it, and the
\* coordinating worker's value from then on.
C14_OnlyCoordinatorFactorizes ==
    \A w \in Procs \ {0} :
        /\ ~Did(w, "svd")
        /\ (call.op = "compute_decomp"
              /\ pc[w] \in {"bcastL", "bcastS", "bcastR", "save", "done"}) =>
               \A a \in {"LSingVecs", "singVals", "RSingVecs"} :
                   IF Delivered(w, a) THEN Field(a, w) = Field(a, 0)
                   ELSE Field(a, w) = NoneVal

\* C14 witness: a worker that held a decomposition from an earlier call waits
\* for Sigma with L delivered and None in place of Sigma and R, while the
\* coordinating worker holds all three.
C14_Witness ==
    /\ parallel
    /\ call.op = "compute_decomp"
    /\ pc[1] = "bcastS"
    /\ pre[1].singVals # NoneVal
    /\ LSingVecs[1] # NoneVal
    /\ singVals[1] = NoneVal
    /\ RSingVecs[1] = NoneVal
    /\ singVals[0] # NoneVal
    /\ Times(0, "svd") = 1

----------------------------------------------------------------------------
\* C15: a worker on which an operation raised a configuration or state error
\* (a missing path list, save mechanism, load mechanism or decomposition)
\* has in that call invoked neither the inner-product builder, nor a
\* broadcast, nor the linear-combination builder.
C15_EagerValidation ==
    \A w \in Procs :
        exc[w] \in {"util.UndefinedError", "NameError"} =>
            \A i \in DOMAIN log[w] :
                log[w][i].ev \notin {"compute_inner_product_matrix", "bcast",
                                      "_compute_modes"}

----------------------------------------------------------------------------
\* No worker of the run has a save mechanism.
NoSaveMat == \A w \in Procs : save_mat[w] = None

\* Worker w has come to the saving of the current call and ended the call:
\* save_decomp itself, or compute_decomp past its builder and factorization.
EndedInSave(w) ==
    /\ Ended(w)
    /\ \/ call.op = "save_decomp"
       \/ /\ call.op = "compute_decomp"
          /\ Did(w, "compute_inner_product_matrix")
          /\ exc[w] \notin {"LinAlgError", "TypeError"}

----------------------------------------------------------------------------
\* Flattening changes the shape of a matrix, not its values.
SameValues(A, B) == Squeeze(A) = Squeeze(B)

ModesOps == {"compute_direct_modes", "compute_adjoint_modes"}

\* C17: the coefficients a modes call hands to the builder are those of the
\* factors the engine holds in that call (R and Sigma for direct modes, L and
\* Sigma for adjoint modes), so after a load those of the loaded factors; and
\* a modes call, returned or raised, leaves the values of H, L, Sigma and R as
\* they were when it was called.
C17_CoefficientsFresh ==
    \A w \in Procs :
        /\ (call.op = "compute_direct_modes" /\ pc[w] = "done") =>
               log[w][1].coeff = buildCoeffMat(RSingVecs[w], singVals[w])
        /\ (call.op = "compute_adjoint_modes" /\ pc[w] = "done") =>
               log[w][1].coeff = buildCoeffMat(LSingVecs[w], singVals[w])
        /\ (call.op \in ModesOps /\ Ended(w)) =>
               /\ hankelMat[w] = pre[w].hankelMat
               /\ LSingVecs[w] = pre[w].LSingVecs
               /\ RSingVecs[w] = pre[w].RSingVecs
               /\ SameValues(singVals[w], pre[w].singVals)

\* C17 witness: modes were built on an engine whose factors came from
\* load_decomp, with the coefficients of those loaded factors.
C17_Witness ==
    /\ call.op = "compute_adjoint_modes"
    /\ AllReturned
    /\ hankelMat[0] = NoneVal
    /\ LSingVecs[0] = disk[DefaultPath("LSingVecs")]
    /\ singVals[0] = Squeeze(disk[DefaultPath("singVals")])
    /\ log[0][1].coeff.V = disk[DefaultPath("LSingVecs")]

----------------------------------------------------------------------------
\* The decomposition matrix A is a part of, named by the entries of its
\* Hankel matrix.
DecompOf(A) == A.h

\* The artifacts worker w holds are parts of one decomposition.
Coherent(w) ==
    \A a, b \in Artifacts :
        (Field(a, w) # NoneVal /\ Field(b, w) # NoneVal) =>
            DecompOf(Field(a, w)) = DecompOf(Field(b, w))

\* C18: when compute_decomp or load_decomp has returned on every worker, and
\* no call on the engine has raised before, those of H, L, Sigma, R that a
\* worker holds belong to one decomposition; a load does not leave the H of
\* an earlier computation beside newly loaded L, Sigma, R.
C18_VersionCoherent ==
    (clean /\ call.op \in {"compute_decomp", "load_decomp"} /\ AllReturned) =>
        \A w \in Procs : Coherent(w)

----------------------------------------------------------------------------
\* The fields the broadcasts of the current call assigned on worker w, in
\* order.
BcastsOf(w) ==
    LET b == SelectSeq(log[w], LAMBDA e : e.ev = "bcast")
    IN  [i \in 1 .. Len(b) |-> b[i].into]

\* Worker w holds L, Sigma and R.
HoldsFactors(w) ==
    LSingVecs[w] # NoneVal /\ singVals[w] # NoneVal /\ RSingVecs[w] # NoneVal

\* The current call is a distributed compute_decomp with both path lists in
\* force and non-empty on every worker, whose factorization has not failed.
ValidCompute ==
    /\ parallel
    /\ call.op = "compute_decomp"
    /\ \A w \in Procs :
           ~UnsetOrEmpty(DirectAtCall(w)) /\ ~UnsetOrEmpty(AdjointAtCall(w))
    /\ exc[0] # "LinAlgError"

\* The current call is a distributed load_decomp with a load mechanism on
\* every worker and a file at each of the three paths it reads.
ValidLoad ==
    /\ parallel
    /\ call.op = "load_decomp"
    /\ \A w \in Procs : call.load_mat # None \/ load_mat[w] # None
    /\ \A a \in {"LSingVecs", "singVals", "RSingVecs"} :
           ~LoadFails(call.paths[a])

\* No worker has raised, and a worker that has returned has been through the
\* broadcasts of L, Sigma, R in that order and holds the three.
ReturnsWithFactors ==
    \A w \in Procs :
        /\ pc[w] # "raised"
        /\ pc[w] = "done" =>
               /\ BcastsOf(w) = <<"LSingVecs", "singVals", "RSingVecs">>
               /\ HoldsFactors(w)

SuccessPath == (ValidCompute /\ save_mat[0] # None) \/ ValidLoad

====
